---- MODULE Spec2Model ----
(***************************************************************************)
(* A model of the fixed-interval time-series journal (package timeseries) *)
(* and of the advisory locking primitive (package locking) it is built on.*)
(*                                                                         *)
(* The journal file is modelled byte for byte: a 64-byte little-endian     *)
(* header followed by the samples.  Handles are the FileJournal structs of *)
(* the callers; every handle owns one descriptor, and flock(2) locks       *)
(* belong to descriptors.                                                  *)
(***************************************************************************)
EXTENDS Integers, Sequences, FiniteSets, TLC

(***************************************************************************)
(* Bounds of the model.                                                    *)
(***************************************************************************)
NumHandles == 2      \* callers of the journal that may run at once
NumFds == 3          \* descriptors the callers of the locking package open
MaxTime == 2         \* timestamps are drawn from -MaxTime .. MaxTime
MaxLen == 2          \* longest Values sequence handed to Write
MaxWrites == 2       \* Write calls per run
MaxCalls == 2        \* Open and Create calls per run
MaxReads == 2        \* largest sample count asked of the Read action
MaxWidth == 5        \* widest byte record of the codec calls

(***************************************************************************)
(* Program constants.                                                      *)
(***************************************************************************)
Version == 0
\* a faulty capacity, one more than the header has room for
MaxMetaLoose == 4 + 1
MaxMeta == 4
HeaderSize == 64
Magic == <<66, 74, 84, 83>>          \* "BJTS"

Handles == 1..NumHandles
Fds == 1..NumFds
Slots == Handles \cup Fds
Timestamps == (0 - MaxTime)..MaxTime
Intervals == {2}
Metas == {<<7>>, <<1, 2, 3, 4, 5>>}

(***************************************************************************)
(* Go integer arithmetic: / and % truncate toward zero.                    *)
(***************************************************************************)
Abs(x) == IF x < 0 THEN 0 - x ELSE x

GoDiv(a, b) ==
    LET q == Abs(a) \div Abs(b)
    IN  IF (a < 0) # (b < 0) THEN 0 - q ELSE q

GoRem(a, b) == a - b * GoDiv(a, b)

Max(a, b) == IF a >= b THEN a ELSE b
Min(a, b) == IF a <= b THEN a ELSE b

(***************************************************************************)
(* encoding/binary, little endian, two's complement.  \div and % of TLA+   *)
(* floor, so a negative value sign-extends by itself.                      *)
(*                                                                         *)
(* TLC's integers have 32 bits.  The integers of the header (timestamps,   *)
(* counts) are TLC integers, read from their low four bytes; Representable *)
(* says when that is exact.  An int64 sample is the record [n |-> v] when  *)
(* its value fits and [wide |-> bytes] when it does not (math.MinInt64,    *)
(* the int64 null, is such a value).                                       *)
(***************************************************************************)
RECURSIVE PutLittleEndian(_, _)
PutLittleEndian(x, n) ==
    IF n = 0 THEN <<>>
    ELSE <<x % 256>> \o PutLittleEndian(x \div 256, n - 1)

Low32(b) ==
    b[1] + 256 * b[2] + 65536 * b[3]
      + 16777216 * (IF b[4] >= 128 THEN b[4] - 256 ELSE b[4])

Representable(b) ==
    \/ b[4] < 128 /\ \A i \in 5..8 : b[i] = 0
    \/ b[4] >= 128 /\ \A i \in 5..8 : b[i] = 255

I64(v) == [n |-> v]
IsWide(s) == "wide" \in DOMAIN s
MinInt64 == [wide |-> <<0, 0, 0, 0, 0, 0, 0, 128>>]

Slice(s, from, to) == SubSeq(s, from + 1, to)     \* Go's s[from:to]

RECURSIVE Flatten(_)
Flatten(ss) == IF ss = <<>> THEN <<>> ELSE Head(ss) \o Flatten(Tail(ss))

(***************************************************************************)
(* Int64ValueType and Int64Values.                                         *)
(***************************************************************************)
Int64Width == 8
Int64Type == 17                      \* 0x11

\* a faulty Null that encodes an int32, math.MinInt32
Int64NullNarrow == <<0, 0, 0, 128>>

Int64Null == MinInt64.wide

Int64Encode(v) ==
    Flatten([i \in 1..Len(v) |->
               IF IsWide(v[i]) THEN v[i].wide ELSE PutLittleEndian(v[i].n, 8)])

Int64Decode(buffer) ==
    LET count == GoDiv(Len(buffer), Int64Width)
        group(i) == Slice(buffer, (i - 1) * Int64Width, i * Int64Width)
    IN  [i \in 1..count |->
           IF Representable(group(i)) THEN I64(Low32(group(i)))
           ELSE [wide |-> group(i)]]

(***************************************************************************)
(* ByteValueType and ByteValues: fixed-width byte records.                 *)
(***************************************************************************)
NullText == <<78, 85, 76, 76>>       \* "NULL"
Space == 32

RECURSIVE Repeat(_, _)
Repeat(b, count) == IF count <= 0 THEN <<>> ELSE b \o Repeat(b, count - 1)

HasPrefix(s, prefix) ==
    Len(s) >= Len(prefix) /\ SubSeq(s, 1, Len(prefix)) = prefix

ByteType(width, null) ==
    IF null = Repeat(<<0>>, width) THEN 1
    ELSE IF HasPrefix(null, NullText) THEN 0
    ELSE 15

\* a faulty constructor that truncates the null but does not pad it
NewByteValueTypeNoPad(width, null) ==
    LET nul == Slice(null, 0, Min(width, Len(null)))
    IN  [kind |-> "bytes", type |-> ByteType(width, nul), width |-> width,
         null |-> nul]

NewByteValueType(width, null) ==
    LET padded == null \o Repeat(<<0>>, width - Len(null))
        nul == Slice(padded, 0, width)
    IN  [kind |-> "bytes", type |-> ByteType(width, nul), width |-> width,
         null |-> nul]

ByteEncode(v) == Flatten(v)

ByteDecode(width, buffer) ==
    LET count == (Len(buffer) + width - 1) \div width
    IN  [i \in 1..count |-> Slice(buffer, (i - 1) * width, i * width)]

(***************************************************************************)
(* Float64ValueType and Float64Values.  A float64 is carried as the record *)
(* [bits |-> b], b the eight bytes of math.Float64bits, most significant   *)
(* first; binary.Write and binary.Read store them least significant first. *)
(***************************************************************************)
Reverse(s) == [i \in 1..Len(s) |-> s[Len(s) + 1 - i]]

F64(b) == [bits |-> b]

Float64Encode(v) == Flatten([i \in 1..Len(v) |-> Reverse(v[i].bits)])

\* a faulty Decode that reads the bytes in big-endian order
Float64DecodeBigEndian(buffer) ==
    LET count == GoDiv(Len(buffer), 8)
    IN  [i \in 1..count |-> F64(Slice(buffer, (i - 1) * 8, i * 8))]

Float64Decode(buffer) ==
    LET count == GoDiv(Len(buffer), 8)
    IN  [i \in 1..count |-> F64(Reverse(Slice(buffer, (i - 1) * 8, i * 8)))]

(***************************************************************************)
(* A ValueType (the factory of a journal) is carried as the record of what *)
(* its methods return.                                                     *)
(***************************************************************************)
NewInt64ValueType ==
    [kind |-> "int64", type |-> Int64Type, width |-> Int64Width, null |-> Int64Null]

\* math.NaN() is 0x7FF8000000000001
NewFloat64ValueType ==
    [kind |-> "float64", type |-> 16, width |-> 8,
     null |-> <<1, 0, 0, 0, 0, 0, 248, 127>>]

Factories == {NewInt64ValueType}

Decode(factory, buffer) ==
    IF factory.kind = "int64" THEN Int64Decode(buffer)
    ELSE IF factory.kind = "float64" THEN Float64Decode(buffer)
    ELSE ByteDecode(factory.width, buffer)

\* Values.Encode, by the kind of the Values
Encode(kind, v) ==
    IF kind = "int64" THEN Int64Encode(v)
    ELSE IF kind = "float64" THEN Float64Encode(v)
    ELSE ByteEncode(v)

(***************************************************************************)
(* GetValueType: the factory a header's type tag and width resolve to.     *)
(* A tag outside the switch panics.                                        *)
(***************************************************************************)
\* a faulty switch without the case of the unknown null, 0x0F
PanicsOnUnknownNull(t) == t \notin {0, 1, 16, 17}

Panics(t) == t \notin {0, 15, 1, 16, 17}

\* a faulty resolution that leaves the padding of "NULL" to the constructor
GetValueTypeZeroPad(t, w) ==
    IF t \in {0, 15} THEN NewByteValueType(w, Slice(NullText, 0, Min(w, 4)))
    ELSE IF t = 1 THEN NewByteValueType(w, Repeat(<<0>>, w))
    ELSE IF t = 16 THEN NewFloat64ValueType
    ELSE NewInt64ValueType

GetValueType(t, w) ==
    IF t \in {0, 15}
    THEN LET null == IF w > 4 THEN NullText \o Repeat(<<Space>>, w - 4)
                     ELSE NullText
         IN  NewByteValueType(w, Slice(null, 0, w))
    ELSE IF t = 1 THEN NewByteValueType(w, Repeat(<<0>>, w))
    ELSE IF t = 16 THEN NewFloat64ValueType
    ELSE NewInt64ValueType

(***************************************************************************)
(* FileHeader and its 64-byte image (binary.Write / binary.Read).          *)
(***************************************************************************)
\* a Create that forgets to copy the metadata into the header
PadMetaNoCopy(meta) == [i \in 1..MaxMeta |-> 0]

PadMeta(meta) == [i \in 1..MaxMeta |-> IF i <= Len(meta) THEN meta[i] ELSE 0]

ZeroHeader ==
    [Magic |-> <<0, 0, 0, 0>>, Version |-> 0, Type |-> 0, Width |-> 0,
     Interval |-> 0, Meta |-> <<0, 0, 0, 0>>, Epoch |-> 0]

EncodeHeader(hd) ==
    hd.Magic \o PutLittleEndian(hd.Version, 4) \o PutLittleEndian(hd.Type, 4)
      \o PutLittleEndian(hd.Width, 4) \o PutLittleEndian(hd.Interval, 8)
      \o Flatten([i \in 1..MaxMeta |-> PutLittleEndian(hd.Meta[i], 8)])
      \o PutLittleEndian(hd.Epoch, 8)

DecodeHeader(b) ==
    [Magic |-> Slice(b, 0, 4),
     Version |-> Low32(Slice(b, 4, 8)),
     Type |-> Low32(Slice(b, 8, 12)),
     Width |-> Low32(Slice(b, 12, 16)),
     Interval |-> Low32(Slice(b, 16, 24)),
     Meta |-> [i \in 1..MaxMeta |-> Low32(Slice(b, 16 + 8 * i, 24 + 8 * i))],
     Epoch |-> Low32(Slice(b, 56, 64))]

(***************************************************************************)
(* os.File.WriteAt and os.File.ReadAt on the bytes of a file.  mode is the *)
(* state of the descriptor: "rw", "ro" or "closed".  Both loop while bytes *)
(* remain, so an empty buffer never reaches the descriptor.                *)
(***************************************************************************)
\* a faulty positional write that appends, as on a descriptor opened O_APPEND
OverlayAppend(bytes, b, off) == bytes \o b

Overlay(bytes, b, off) ==
    [i \in 1..Max(Len(bytes), off + Len(b)) |->
       IF i > off /\ i <= off + Len(b) THEN b[i - off]
       ELSE IF i <= Len(bytes) THEN bytes[i]
       ELSE 0]

\* a faulty positional write that cuts the file off after the bytes written
WriteAtTruncate(bytes, mode, b, off) ==
    IF off < 0 THEN [err |-> "negative offset", bytes |-> bytes]
    ELSE IF b = <<>> THEN [err |-> "", bytes |-> bytes]
    ELSE IF mode = "closed" THEN [err |-> "file already closed", bytes |-> bytes]
    ELSE IF mode = "ro" THEN [err |-> "bad file descriptor", bytes |-> bytes]
    ELSE [err |-> "",
          bytes |-> Slice(Overlay(bytes, b, off), 0, off + Len(b))]

WriteAt(bytes, mode, b, off) ==
    IF off < 0 THEN [err |-> "negative offset", bytes |-> bytes]
    ELSE IF b = <<>> THEN [err |-> "", bytes |-> bytes]
    ELSE IF mode = "closed" THEN [err |-> "file already closed", bytes |-> bytes]
    ELSE IF mode = "ro" THEN [err |-> "bad file descriptor", bytes |-> bytes]
    ELSE [err |-> "", bytes |-> Overlay(bytes, b, off)]

\* a faulty positional read that drops the io.EOF of a short read
ReadAtNoEOF(bytes, mode, count, off) ==
    IF off < 0 THEN [err |-> "negative offset", b |-> <<>>]
    ELSE IF count <= 0 THEN [err |-> "", b |-> <<>>]
    ELSE IF mode = "closed" THEN [err |-> "file already closed", b |-> <<>>]
    ELSE [err |-> "",
          b |-> Slice(bytes, Min(off, Len(bytes)), Min(off + count, Len(bytes)))]

ReadAt(bytes, mode, count, off) ==
    IF off < 0 THEN [err |-> "negative offset", b |-> <<>>]
    ELSE IF count <= 0 THEN [err |-> "", b |-> <<>>]
    ELSE IF mode = "closed" THEN [err |-> "file already closed", b |-> <<>>]
    ELSE LET got == Slice(bytes, Min(off, Len(bytes)), Min(off + count, Len(bytes)))
         IN  [err |-> IF Len(got) < count THEN "EOF" ELSE "", b |-> got]

(***************************************************************************)
(* flock(2).  A lock belongs to a descriptor; h asks for mode "ex" or      *)
(* "sh".  A descriptor that changes its lock gives the old one up first.   *)
(***************************************************************************)
Conflict(lk, h, mode) ==
    \E g \in DOMAIN lk : g # h /\ lk[g] # "none" /\ (mode = "ex" \/ lk[g] = "ex")

\* a faulty LOCK_EX that is granted whatever the other descriptors hold
ExclusiveNoWait(lk, h) ==
    [blocks |-> FALSE, err |-> "", lk |-> [lk EXCEPT ![h] = "ex"]]

\* LOCK_EX, LOCK_SH: the call returns once the lock is granted
Exclusive(lk, h) ==
    [blocks |-> Conflict(lk, h, "ex"), err |-> "", lk |-> [lk EXCEPT ![h] = "ex"]]

Share(lk, h) ==
    [blocks |-> Conflict(lk, h, "sh"), err |-> "", lk |-> [lk EXCEPT ![h] = "sh"]]

\* a faulty try-lock that leaves LOCK_NB out and so waits on a conflict
TryLockBlocking(lk, h, mode) ==
    [blocks |-> Conflict(lk, h, mode), err |-> "", lk |-> [lk EXCEPT ![h] = mode]]

\* LOCK_EX | LOCK_NB, LOCK_SH | LOCK_NB: the call returns at once
TryLock(lk, h, mode) ==
    IF lk[h] = mode THEN [blocks |-> FALSE, err |-> "", lk |-> lk]
    ELSE IF Conflict(lk, h, mode)
    THEN [blocks |-> FALSE, err |-> "EWOULDBLOCK", lk |-> [lk EXCEPT ![h] = "none"]]
    ELSE [blocks |-> FALSE, err |-> "", lk |-> [lk EXCEPT ![h] = mode]]

TryExclusive(lk, h) == TryLock(lk, h, "ex")

TryShare(lk, h) == TryLock(lk, h, "sh")

\* LOCK_UN
Release(lk, h) == [blocks |-> FALSE, err |-> "", lk |-> [lk EXCEPT ![h] = "none"]]

(***************************************************************************)
(* The journal engine: slot arithmetic, Write and Read as functions of the *)
(* handle ts (a FileJournal), the bytes of the file and the descriptor.    *)
(***************************************************************************)
adjust(timestamp, interval) == timestamp - GoRem(timestamp, interval)

offset(ts, timestamp) ==
    GoDiv(adjust(timestamp, ts.header.Interval) - ts.header.Epoch,
          ts.header.Interval) * ts.header.Width

FdMode(ts) ==
    IF ts.pc = "closed" THEN "closed" ELSE IF ts.readonly THEN "ro" ELSE "rw"

\* which arm of Write's if-chain runs
WriteBranch(ts, seekPoint) ==
    IF ts.header.Epoch = 0 THEN "first"
    ELSE IF seekPoint <= ts.points THEN "normal"
    ELSE IF seekPoint > ts.points THEN "gap"
    ELSE "before"

\* a faulty Write that counts every sample of a normal write as a new point
WriteCallNoOverlap(ts, bytes, timestamp0, values) ==
    LET timestamp == adjust(timestamp0, ts.header.Interval)
        seekPoint == GoDiv(timestamp - ts.header.Epoch, ts.header.Interval)
        width == ts.header.Width
        branch == WriteBranch(ts, seekPoint)
        gapPoints == seekPoint - ts.points
        buffer0 ==
            IF branch = "first" THEN PutLittleEndian(timestamp, 8)
            ELSE IF branch = "gap" THEN Repeat(ts.factory.null, gapPoints)
            ELSE <<>>
        seek ==
            IF branch = "first" THEN HeaderSize - 8
            ELSE IF branch = "normal" THEN HeaderSize + seekPoint * width
            ELSE HeaderSize + ts.points * width
        addedPoints ==
            IF branch = "first" THEN Len(values)
            ELSE IF branch = "normal" THEN Len(values)
            ELSE Len(values) + gapPoints
        wr == WriteAt(bytes, FdMode(ts), buffer0 \o Int64Encode(values), seek)
    IN  IF branch = "before"
        THEN [err |-> "Time stamp is before journal epoch", bytes |-> bytes, ts |-> ts]
        ELSE IF wr.err # ""
        THEN [err |-> wr.err, bytes |-> bytes, ts |-> ts]
        ELSE [err |-> "", bytes |-> wr.bytes,
              ts |-> [ts EXCEPT !.points = ts.points + addedPoints,
                                !.header.Epoch =
                                    IF ts.header.Epoch = 0 THEN timestamp
                                    ELSE ts.header.Epoch]]

\* a faulty Write that does its book keeping before it looks at the error
WriteCallEarlyCount(ts, bytes, timestamp0, values) ==
    LET timestamp == adjust(timestamp0, ts.header.Interval)
        seekPoint == GoDiv(timestamp - ts.header.Epoch, ts.header.Interval)
        width == ts.header.Width
        branch == WriteBranch(ts, seekPoint)
        gapPoints == seekPoint - ts.points
        buffer0 ==
            IF branch = "first" THEN PutLittleEndian(timestamp, 8)
            ELSE IF branch = "gap" THEN Repeat(ts.factory.null, gapPoints)
            ELSE <<>>
        seek ==
            IF branch = "first" THEN HeaderSize - 8
            ELSE IF branch = "normal" THEN HeaderSize + seekPoint * width
            ELSE HeaderSize + ts.points * width
        addedPoints ==
            IF branch = "first" THEN Len(values)
            ELSE IF branch = "normal"
            THEN IF Len(values) < ts.points - seekPoint THEN 0
                 ELSE Len(values) - (ts.points - seekPoint)
            ELSE Len(values) + gapPoints
        wr == WriteAt(bytes, FdMode(ts), buffer0 \o Int64Encode(values), seek)
    IN  IF branch = "before"
        THEN [err |-> "Time stamp is before journal epoch", bytes |-> bytes, ts |-> ts]
        ELSE IF wr.err # ""
        THEN [err |-> wr.err, bytes |-> bytes,
              ts |-> [ts EXCEPT !.points = ts.points + addedPoints,
                                !.header.Epoch =
                                    IF ts.header.Epoch = 0 THEN timestamp
                                    ELSE ts.header.Epoch]]
        ELSE [err |-> "", bytes |-> wr.bytes,
              ts |-> [ts EXCEPT !.points = ts.points + addedPoints,
                                !.header.Epoch =
                                    IF ts.header.Epoch = 0 THEN timestamp
                                    ELSE ts.header.Epoch]]

\* FileJournal.Write: the error returned, the bytes of the file and the
\* handle afterwards
WriteCall(ts, bytes, timestamp0, values) ==
    LET timestamp == adjust(timestamp0, ts.header.Interval)
        seekPoint == GoDiv(timestamp - ts.header.Epoch, ts.header.Interval)
        width == ts.header.Width
        branch == WriteBranch(ts, seekPoint)
        gapPoints == seekPoint - ts.points
        buffer0 ==
            IF branch = "first" THEN PutLittleEndian(timestamp, 8)
            ELSE IF branch = "gap" THEN Repeat(ts.factory.null, gapPoints)
            ELSE <<>>
        seek ==
            IF branch = "first" THEN HeaderSize - 8
            ELSE IF branch = "normal" THEN HeaderSize + seekPoint * width
            ELSE HeaderSize + ts.points * width
        addedPoints ==
            IF branch = "first" THEN Len(values)
            ELSE IF branch = "normal"
            THEN IF Len(values) < ts.points - seekPoint THEN 0
                 ELSE Len(values) - (ts.points - seekPoint)
            ELSE Len(values) + gapPoints
        wr == WriteAt(bytes, FdMode(ts), buffer0 \o Int64Encode(values), seek)
    IN  IF branch = "before"
        THEN [err |-> "Time stamp is before journal epoch", bytes |-> bytes, ts |-> ts]
        ELSE IF wr.err # ""
        THEN [err |-> wr.err, bytes |-> bytes, ts |-> ts]
        ELSE [err |-> "", bytes |-> wr.bytes,
              ts |-> [ts EXCEPT !.points = ts.points + addedPoints,
                                !.header.Epoch =
                                    IF ts.header.Epoch = 0 THEN timestamp
                                    ELSE ts.header.Epoch]]

\* FileJournal.Read: the Values and the error returned
ReadCall(ts, bytes, timestamp, n) ==
    LET rd == ReadAt(bytes, FdMode(ts), n * ts.header.Width,
                     offset(ts, timestamp) + HeaderSize)
    IN  [values |-> Decode(ts.factory, rd.b), err |-> rd.err]

Last(ts) == ts.header.Epoch + ts.header.Interval * (ts.points - 1)

(***************************************************************************)
(* Open after the descriptor is locked, as functions of the bytes of the   *)
(* file.  exit says how the code leaves: "ok", "error" (return nil, err)   *)
(* or "panic".                                                             *)
(***************************************************************************)
\* binary.Read of the header, the magic check and GetValueType
ReadHeader(bytes) ==
    LET hd == DecodeHeader(bytes)
    IN  IF Len(bytes) < HeaderSize
        THEN [exit |-> "error",
              err |-> IF bytes = <<>> THEN "EOF" ELSE "unexpected EOF"]
        ELSE IF hd.Magic # Magic
        THEN [exit |-> "error", err |-> "Not a journal timeseries"]
        ELSE IF Panics(hd.Type)
        THEN [exit |-> "panic", err |-> "panic: Unimplemented journal data type"]
        ELSE [exit |-> "ok", err |-> "", header |-> hd,
              factory |-> GetValueType(hd.Type, hd.Width)]

\* fd.Stat, the size check and the point count
StatSize(header, bytes) ==
    LET size == Len(bytes)
    IN  IF header.Width = 0
        THEN [exit |-> "panic", err |-> "panic: integer divide by zero"]
        ELSE IF GoRem(size - HeaderSize, header.Width) # 0
        THEN [exit |-> "error", err |-> "Corrupt or partial data!"]
        ELSE [exit |-> "ok", err |-> "",
              points |-> GoDiv(size - HeaderSize, header.Width)]

(***************************************************************************)
(* State.                                                                  *)
(*   file    the journal file at the one path: whether it exists, whether  *)
(*           its permissions allow writing, and its bytes; made remembers  *)
(*           the arguments of the Create call that made the file (at most  *)
(*           one entry; history, not on disk)                              *)
(*   j       the handle of every caller: where the caller stands (pc), and *)
(*           the FileJournal struct (header, readonly, points, factory)    *)
(*   lock    the flock held by each caller's descriptor                    *)
(*   last    the call that returned last, with what it returned            *)
(*   nwrites, ncalls   Write calls, Open and Create calls made so far      *)
(*                                                                         *)
(* pc: "idle" no descriptor; "open_lock", "open_hdr", "open_stat" inside   *)
(* Open; "create_lock", "create_hdr" inside Create; "ready" a returned     *)
(* handle; "closed" a handle after Close; "leaked" a descriptor whose Open *)
(* returned an error without closing it; "fd", a bare descriptor of the    *)
(* locking package's callers.                                              *)
(***************************************************************************)
VARIABLES file, j, lock, last, nwrites, ncalls

vars == <<file, j, lock, last, nwrites, ncalls>>

\* a caller without a FileJournal, and the zero FileJournal{} a call fills in;
\* origin and failed remember which call returned the handle and whether a
\* Write on it has returned an error
NoHandle == [pc |-> "idle"]

NewHandle ==
    [pc |-> "idle", header |-> ZeroHeader, readonly |-> FALSE, points |-> 0,
     factory |-> NewInt64ValueType, origin |-> "none", failed |-> FALSE]

\* Open on a file that no other caller touches meanwhile: the error and the
\* handle returned
OpenCall(bytes, readonly) ==
    LET r == ReadHeader(bytes)
        st == StatSize(r.header, bytes)
    IN  IF r.exit # "ok" THEN [err |-> r.err, ts |-> NoHandle]
        ELSE IF st.exit # "ok" THEN [err |-> st.err, ts |-> NoHandle]
        ELSE [err |-> "",
              ts |-> [NewHandle EXCEPT !.pc = "ready", !.header = r.header,
                                      !.factory = r.factory, !.points = st.points,
                                      !.readonly = readonly, !.origin = "Open"]]

\* the Values handed to Write: runs of consecutive int64 samples
FirstSamples == {1, 5}
Values == {[i \in 1..n |-> I64(v + i - 1)] : n \in 0..MaxLen, v \in FirstSamples}

Init ==
    /\ file = [exists |-> FALSE, writable |-> TRUE, bytes |-> <<>>, made |-> <<>>]
    /\ j = [h \in Slots |-> NoHandle]
    /\ lock = [h \in Slots |-> "none"]
    /\ last = [op |-> "none", h |-> 0, err |-> ""]
    /\ nwrites = 0
    /\ ncalls = 0

HasFd(h) == j[h].pc \notin {"idle", "closed"}

(***************************************************************************)
(* Open, in the steps at which other callers can interleave.               *)
(***************************************************************************)
\* os.OpenFile(path, O_RDWR), falling back to os.Open on a permission error
OpenFile(h) ==
    /\ j[h].pc \in {"idle", "closed"}
    /\ ncalls < MaxCalls
    /\ ncalls' = ncalls + 1
    /\ IF ~file.exists
       THEN /\ j' = [j EXCEPT ![h] = NoHandle]
            /\ last' = [op |-> "Open", h |-> h, err |-> "no such file or directory"]
       ELSE /\ j' = [j EXCEPT ![h] = [NewHandle EXCEPT !.pc = "open_lock",
                                                      !.readonly = ~file.writable]]
            /\ last' = last
    /\ UNCHANGED <<file, lock, nwrites>>

\* lock.Share(fd) or lock.Exclusive(fd): returns once the lock is granted
OpenLock(h) ==
    /\ j[h].pc = "open_lock"
    /\ LET r == IF j[h].readonly THEN Share(lock, h) ELSE Exclusive(lock, h)
       IN  /\ ~r.blocks
           /\ lock' = r.lk
    /\ j' = [j EXCEPT ![h].pc = "open_hdr"]
    /\ UNCHANGED <<file, last, nwrites, ncalls>>

\* binary.Read of the header, the magic check and GetValueType.  The error
\* returns leave the descriptor open; a panic ends the caller, and with it
\* the descriptor.
OpenHeader(h) ==
    /\ j[h].pc = "open_hdr"
    /\ LET r == ReadHeader(file.bytes)
       IN  /\ j' = [j EXCEPT ![h] =
                      IF r.exit = "panic" THEN NoHandle
                      ELSE IF r.exit = "error" THEN [@ EXCEPT !.pc = "leaked"]
                      ELSE [@ EXCEPT !.pc = "open_stat", !.header = r.header,
                                     !.factory = r.factory]]
           /\ lock' = IF r.exit = "panic" THEN [lock EXCEPT ![h] = "none"] ELSE lock
           /\ last' = IF r.exit = "ok" THEN last
                      ELSE [op |-> "Open", h |-> h, err |-> r.err]
    /\ UNCHANGED <<file, nwrites, ncalls>>

\* fd.Stat and the size check; the handle is returned
OpenStat(h) ==
    /\ j[h].pc = "open_stat"
    /\ LET r == StatSize(j[h].header, file.bytes)
       IN  /\ j' = [j EXCEPT ![h] =
                      IF r.exit = "panic" THEN NoHandle
                      ELSE IF r.exit = "error" THEN [@ EXCEPT !.pc = "leaked"]
                      ELSE [@ EXCEPT !.pc = "ready", !.points = r.points,
                                     !.origin = "Open"]]
           /\ lock' = IF r.exit = "panic" THEN [lock EXCEPT ![h] = "none"] ELSE lock
           /\ last' = [op |-> "Open", h |-> h, err |-> r.err]
    /\ UNCHANGED <<file, nwrites, ncalls>>

\* the finalizer of an unreachable os.File closes its descriptor, if and
\* when the collector runs it
Finalize(h) ==
    /\ j[h].pc = "leaked"
    /\ j' = [j EXCEPT ![h] = NoHandle]
    /\ lock' = [lock EXCEPT ![h] = "none"]
    /\ UNCHANGED <<file, last, nwrites, ncalls>>

(***************************************************************************)
(* Create, in the steps at which other callers can interleave.  The parent *)
(* directory exists.                                                       *)
(***************************************************************************)
\* the metadata check and os.Create(path), which truncates an existing file
CreateFile(h, interval, factory, meta) ==
    /\ j[h].pc \in {"idle", "closed"}
    /\ ncalls < MaxCalls
    /\ ncalls' = ncalls + 1
    /\ IF Len(meta) > MaxMeta
       THEN /\ j' = [j EXCEPT ![h] = NoHandle]
            /\ file' = file
            /\ last' = [op |-> "Create", h |-> h,
                        err |-> "Length of metadata slice too long"]
       ELSE IF file.exists /\ ~file.writable
       THEN /\ j' = [j EXCEPT ![h] = NoHandle]
            /\ file' = file
            /\ last' = [op |-> "Create", h |-> h, err |-> "permission denied"]
       ELSE /\ j' = [j EXCEPT ![h] =
                       [NewHandle EXCEPT
                          !.pc = "create_lock",
                          !.factory = factory,
                          !.header = [Magic |-> Magic, Version |-> Version,
                                      Type |-> factory.type,
                                      Width |-> factory.width,
                                      Interval |-> interval,
                                      Meta |-> PadMeta(meta), Epoch |-> 0]]]
            /\ file' = [file EXCEPT
                          !.exists = TRUE, !.bytes = <<>>,
                          !.made = <<[interval |-> interval, factory |-> factory,
                                      meta |-> meta]>>]
            /\ last' = last
    /\ UNCHANGED <<lock, nwrites>>

\* lock.Exclusive(fd): returns once the lock is granted
CreateLock(h) ==
    /\ j[h].pc = "create_lock"
    /\ LET r == Exclusive(lock, h)
       IN  /\ ~r.blocks
           /\ lock' = r.lk
    /\ j' = [j EXCEPT ![h].pc = "create_hdr"]
    /\ UNCHANGED <<file, last, nwrites, ncalls>>

\* binary.Write of the header at the descriptor's position, 0, and Sync
CreateHeader(h) ==
    /\ j[h].pc = "create_hdr"
    /\ file' = [file EXCEPT !.bytes = Overlay(file.bytes, EncodeHeader(j[h].header), 0)]
    /\ j' = [j EXCEPT ![h].pc = "ready", ![h].origin = "Create"]
    /\ last' = [op |-> "Create", h |-> h, err |-> ""]
    /\ UNCHANGED <<lock, nwrites, ncalls>>

(***************************************************************************)
(* The methods of a handle.  A caller may use its handle after Close.      *)
(***************************************************************************)
Write(h, timestamp, values) ==
    /\ j[h].pc \in {"ready", "closed"}
    /\ nwrites < MaxWrites
    /\ nwrites' = nwrites + 1
    /\ LET r == WriteCall(j[h], file.bytes, timestamp, values)
       IN  /\ file' = [file EXCEPT !.bytes = r.bytes]
           /\ j' = [j EXCEPT ![h] = [r.ts EXCEPT !.failed = @ \/ r.err # ""]]
           /\ last' = [op |-> "Write", h |-> h, err |-> r.err]
    /\ UNCHANGED <<lock, ncalls>>

\* Read changes nothing but what it returns, so a Read that follows a Read
\* reaches no state the first one does not: only the first is taken.
Read(h, timestamp, n) ==
    /\ j[h].pc \in {"ready", "closed"}
    /\ last.op # "Read"
    /\ LET r == ReadCall(j[h], file.bytes, timestamp, n)
       IN  last' = [op |-> "Read", h |-> h, err |-> r.err, values |-> r.values]
    /\ UNCHANGED <<file, j, lock, nwrites, ncalls>>

\* fd.Close gives up the descriptor and, with it, its lock
Close(h) ==
    /\ j[h].pc = "ready"
    /\ j' = [j EXCEPT ![h].pc = "closed"]
    /\ lock' = [lock EXCEPT ![h] = "none"]
    /\ last' = [op |-> "Close", h |-> h, err |-> ""]
    /\ UNCHANGED <<file, nwrites, ncalls>>

(***************************************************************************)
(* The environment: the owner of the file changes its permissions.         *)
(***************************************************************************)
Chmod(writable) ==
    /\ file.exists
    /\ file.writable # writable
    /\ file' = [file EXCEPT !.writable = writable]
    /\ UNCHANGED <<j, lock, last, nwrites, ncalls>>

(***************************************************************************)
(* Spec: one caller, as in a single-threaded program that keeps one handle *)
(* variable: it creates, writes, reads, closes and reopens the journal.    *)
(***************************************************************************)
Caller == 1

Next ==
    \/ OpenFile(Caller)
    \/ OpenLock(Caller)
    \/ OpenHeader(Caller)
    \/ OpenStat(Caller)
    \/ \E interval \in Intervals, factory \in Factories, meta \in Metas :
          CreateFile(Caller, interval, factory, meta)
    \/ CreateLock(Caller)
    \/ CreateHeader(Caller)
    \/ \E timestamp \in Timestamps, values \in Values :
          Write(Caller, timestamp, values)
    \/ \E timestamp \in Timestamps, n \in 0..MaxReads :
          Read(Caller, timestamp, n)
    \/ Close(Caller)
    \/ \E writable \in BOOLEAN : Chmod(writable)

Spec == Init /\ [][Next]_vars

(***************************************************************************)
(* SampleSpec and WriteSpec: one caller holds the handle that Create has   *)
(* just returned for an int64 journal of interval 2, and writes and reads  *)
(* samples (SampleSpec), or writes samples and closes (WriteSpec).  The    *)
(* timestamps are before the first epochs, on and off the grid, and two    *)
(* slots beyond.                                                           *)
(***************************************************************************)
SampleTimestamps == {0 - 3, 0, 1, 2, 4}

CreatedHeader ==
    [Magic |-> Magic, Version |-> Version, Type |-> Int64Type,
     Width |-> Int64Width, Interval |-> 2, Meta |-> PadMeta(<<7>>), Epoch |-> 0]

CreatedInit ==
    /\ file = [exists |-> TRUE, writable |-> TRUE,
               bytes |-> EncodeHeader(CreatedHeader),
               made |-> <<[interval |-> 2, factory |-> NewInt64ValueType,
                           meta |-> <<7>>]>>]
    /\ j = [h \in Slots |->
              IF h = Caller
              THEN [NewHandle EXCEPT !.pc = "ready", !.origin = "Create",
                                     !.header = CreatedHeader]
              ELSE NoHandle]
    /\ lock = [h \in Slots |-> IF h = Caller THEN "ex" ELSE "none"]
    /\ last = [op |-> "Create", h |-> Caller, err |-> ""]
    /\ nwrites = 0
    /\ ncalls = 1

NextSample ==
    \/ \E timestamp \in SampleTimestamps, values \in Values :
          Write(Caller, timestamp, values)
    \/ \E timestamp \in SampleTimestamps, n \in 0..MaxReads :
          Read(Caller, timestamp, n)

SampleSpec == CreatedInit /\ [][NextSample]_vars

NextWrite ==
    \/ \E timestamp \in SampleTimestamps, values \in Values :
          Write(Caller, timestamp, values)
    \/ Close(Caller)

WriteSpec == CreatedInit /\ [][NextWrite]_vars

(***************************************************************************)
(* ReopenSpec: the caller writes to the journal that Create has returned,  *)
(* closes it and opens it again.  The timestamps are an epoch, the slot    *)
(* after it, and the slots seven and eight intervals before it.            *)
(***************************************************************************)
FarTimestamps == {0 - 14, 0 - 12, 2, 4}

NextReopen ==
    \/ \E timestamp \in FarTimestamps, values \in Values :
          Write(Caller, timestamp, values)
    \/ Close(Caller)
    \/ OpenFile(Caller)
    \/ OpenLock(Caller)
    \/ OpenHeader(Caller)
    \/ OpenStat(Caller)

ReopenSpec == CreatedInit /\ [][NextReopen]_vars

(***************************************************************************)
(* CreateSpec: one caller creates journals of every codec a caller can     *)
(* construct, with and without metadata, closes them and opens them again. *)
(***************************************************************************)
CreateIntervals == {1, 60}
CreateFactories ==
    {NewInt64ValueType,
     NewByteValueType(2, <<45, 45>>),              \* null "--"
     NewByteValueType(5, NullText),                \* null "NULL" and a zero byte
     NewByteValueType(1, <<>>)}                    \* null of zero bytes
CreateMetas == {<<>>, <<7>>, <<0 - 1, 2, 3, 4>>, <<1, 2, 3, 4, 5>>}

NextCreate ==
    \/ \E interval \in CreateIntervals, factory \in CreateFactories,
          meta \in CreateMetas :
          CreateFile(Caller, interval, factory, meta)
    \/ CreateLock(Caller)
    \/ CreateHeader(Caller)
    \/ Close(Caller)
    \/ OpenFile(Caller)
    \/ OpenLock(Caller)
    \/ OpenHeader(Caller)
    \/ OpenStat(Caller)
    \/ \E writable \in BOOLEAN : Chmod(writable)

CreateSpec == Init /\ [][NextCreate]_vars

(***************************************************************************)
(* ConcSpec: several callers (goroutines or processes) work on the same    *)
(* path at once; every step of Open and Create interleaves with the steps  *)
(* of the others.  The callers write one sample at a fixed timestamp.      *)
(***************************************************************************)
ConcTimestamps == {2}
ConcValues == {<<I64(1)>>}
ConcMetas == {<<7>>}

NextConc ==
    \/ \E h \in Handles : OpenFile(h)
    \/ \E h \in Handles : OpenLock(h)
    \/ \E h \in Handles : OpenHeader(h)
    \/ \E h \in Handles : OpenStat(h)
    \/ \E h \in Handles : Finalize(h)
    \/ \E h \in Handles, interval \in Intervals, factory \in Factories,
          meta \in ConcMetas :
          CreateFile(h, interval, factory, meta)
    \/ \E h \in Handles : CreateLock(h)
    \/ \E h \in Handles : CreateHeader(h)
    \/ \E h \in Handles, timestamp \in ConcTimestamps, values \in ConcValues :
          Write(h, timestamp, values)
    \/ \E h \in Handles : Close(h)
    \/ \E writable \in BOOLEAN : Chmod(writable)

\* the path holds nothing, or a journal that an earlier caller created and closed
ConcInit ==
    /\ file \in {[exists |-> FALSE, writable |-> TRUE, bytes |-> <<>>, made |-> <<>>],
                 [exists |-> TRUE, writable |-> TRUE,
                  bytes |-> EncodeHeader([Magic |-> Magic, Version |-> Version,
                                          Type |-> Int64Type, Width |-> Int64Width,
                                          Interval |-> 2, Meta |-> PadMeta(<<7>>),
                                          Epoch |-> 0]),
                  made |-> <<[interval |-> 2, factory |-> NewInt64ValueType,
                              meta |-> <<7>>]>>]}
    /\ j = [h \in Slots |-> NoHandle]
    /\ lock = [h \in Slots |-> "none"]
    /\ last = [op |-> "none", h |-> 0, err |-> ""]
    /\ nwrites = 0
    /\ ncalls = 0

ConcSpec == ConcInit /\ [][NextConc]_vars

(***************************************************************************)
(* LockSpec: the locking package on its own.  Callers open descriptors on  *)
(* one file ("fd") and call Exclusive, Share, TryExclusive, TryShare and   *)
(* Release on them.  A caller inside a blocking call waits at "wait_ex" or *)
(* "wait_sh" until the kernel grants the lock.                             *)
(***************************************************************************)
FdOpen(h) ==
    /\ j[h].pc = "idle"
    /\ j' = [j EXCEPT ![h].pc = "fd"]
    /\ last' = [op |-> "fdopen", h |-> h, err |-> ""]
    /\ UNCHANGED <<file, lock, nwrites, ncalls>>

FdClose(h) ==
    /\ j[h].pc = "fd"
    /\ j' = [j EXCEPT ![h].pc = "idle"]
    /\ lock' = [lock EXCEPT ![h] = "none"]
    /\ last' = [op |-> "fdclose", h |-> h, err |-> ""]
    /\ UNCHANGED <<file, nwrites, ncalls>>

\* a call of the package on descriptor h, r being what flock answers: the
\* call returns, or the caller waits, its old lock given up
Flock(h, r, op, wait) ==
    /\ j[h].pc = "fd"
    /\ IF r.blocks
       THEN /\ j' = [j EXCEPT ![h].pc = wait]
            /\ lock' = [lock EXCEPT ![h] = "none"]
            /\ last' = last
       ELSE /\ j' = j
            /\ lock' = r.lk
            /\ last' = [op |-> op, h |-> h, err |-> r.err]
    /\ UNCHANGED <<file, nwrites, ncalls>>

CallExclusive(h) == Flock(h, Exclusive(lock, h), "Exclusive", "wait_ex")

CallShare(h) == Flock(h, Share(lock, h), "Share", "wait_sh")

CallTryExclusive(h) == Flock(h, TryExclusive(lock, h), "TryExclusive", "wait_ex")

CallTryShare(h) == Flock(h, TryShare(lock, h), "TryShare", "wait_sh")

CallRelease(h) == Flock(h, Release(lock, h), "Release", "wait_ex")

\* the kernel grants the lock a caller waits for
Granted(h) ==
    /\ j[h].pc \in {"wait_ex", "wait_sh"}
    /\ LET r == IF j[h].pc = "wait_ex" THEN Exclusive(lock, h) ELSE Share(lock, h)
       IN  /\ ~r.blocks
           /\ lock' = r.lk
           /\ last' = [op |-> IF j[h].pc = "wait_ex" THEN "Exclusive" ELSE "Share",
                       h |-> h, err |-> r.err]
    /\ j' = [j EXCEPT ![h].pc = "fd"]
    /\ UNCHANGED <<file, nwrites, ncalls>>

NextLock ==
    \/ \E h \in Fds : FdOpen(h)
    \/ \E h \in Fds : FdClose(h)
    \/ \E h \in Fds : CallExclusive(h)
    \/ \E h \in Fds : CallShare(h)
    \/ \E h \in Fds : Granted(h)
    \/ \E h \in Fds : CallTryExclusive(h)
    \/ \E h \in Fds : CallTryShare(h)
    \/ \E h \in Fds : CallRelease(h)

LockSpec == Init /\ [][NextLock]_vars

(***************************************************************************)
(* CodecSpec: the value types on their own.  A caller constructs a codec   *)
(* (NewByteValueType, NewInt64ValueType, NewFloat64ValueType) or resolves  *)
(* one (GetValueType), directly or from the Type() and Width() of a codec  *)
(* it constructed, as Open does with the header that Create wrote; it then *)
(* encodes Values of that codec and decodes the bytes again.  last holds   *)
(* the arguments and the result of the call.                               *)
(***************************************************************************)
Widths == 1..MaxWidth
Nulls ==
    {<<>>, <<0>>, <<0, 7>>, <<45, 45>>, <<78, 85>>, NullText,
     NullText \o <<Space, Space>>, <<0, 0, 0, 0, 0, 0, 0>>,
     <<45, 45, 45, 45, 45, 45, 45>>}
Tags == {0, 1, 15, 16, 17, 2, 18, 0 - 1}

Seqs(S) == UNION {[1..n -> S] : n \in 0..MaxLen}

ByteSamples(w) == {[i \in 1..w |-> 64 + i], [i \in 1..w |-> 0]}
Int64Samples == {I64(1), I64(0 - 2), I64(300), MinInt64}
\* 3.14159, NaN and -0.0
Float64Samples ==
    {F64(<<64, 9, 33, 249, 240, 27, 134, 110>>),
     F64(<<127, 248, 0, 0, 0, 0, 0, 1>>),
     F64(<<128, 0, 0, 0, 0, 0, 0, 0>>)}

ValuesOf(factory) ==
    IF factory.kind = "int64" THEN Seqs(Int64Samples)
    ELSE IF factory.kind = "float64" THEN Seqs(Float64Samples)
    ELSE Seqs(ByteSamples(factory.width))

CallNewByteValueType(width, null) ==
    /\ last' = [op |-> "NewByteValueType", h |-> 0, err |-> "",
                width |-> width, null |-> null,
                factory |-> NewByteValueType(width, null)]
    /\ UNCHANGED <<file, j, lock, nwrites, ncalls>>

CallNewNumeric(factory) ==
    /\ last' = [op |-> "New", h |-> 0, err |-> "", factory |-> factory]
    /\ UNCHANGED <<file, j, lock, nwrites, ncalls>>

CallGetValueType(t, w) ==
    /\ last' = IF Panics(t)
               THEN [op |-> "GetValueType", h |-> 0, t |-> t, w |-> w,
                     err |-> "panic: Unimplemented journal data type"]
               ELSE [op |-> "GetValueType", h |-> 0, t |-> t, w |-> w,
                     err |-> "", factory |-> GetValueType(t, w)]
    /\ UNCHANGED <<file, j, lock, nwrites, ncalls>>

\* what Open resolves for a journal that Create made with the codec of last
Reresolve ==
    /\ last.op = "NewByteValueType"
    /\ LET t == last.factory.type
           w == last.factory.width
       IN  last' = [op |-> "GetValueType", h |-> 0, t |-> t, w |-> w,
                    err |-> "", factory |-> GetValueType(t, w),
                    made |-> last.factory]
    /\ UNCHANGED <<file, j, lock, nwrites, ncalls>>

CallEncode ==
    /\ last.op \in {"NewByteValueType", "New", "GetValueType"}
    /\ last.err = ""
    /\ \E values \in ValuesOf(last.factory) :
          last' = [op |-> "Encode", h |-> 0, err |-> "",
                   factory |-> last.factory, values |-> values,
                   bytes |-> Encode(last.factory.kind, values)]
    /\ UNCHANGED <<file, j, lock, nwrites, ncalls>>

CallDecode ==
    /\ last.op = "Encode"
    /\ last' = [op |-> "Decode", h |-> 0, err |-> "", factory |-> last.factory,
                values |-> last.values, bytes |-> last.bytes,
                decoded |-> Decode(last.factory, last.bytes)]
    /\ UNCHANGED <<file, j, lock, nwrites, ncalls>>

NextCodec ==
    \/ \E width \in Widths, null \in Nulls : CallNewByteValueType(width, null)
    \/ \E factory \in {NewInt64ValueType, NewFloat64ValueType} :
          CallNewNumeric(factory)
    \/ \E t \in Tags, w \in Widths : CallGetValueType(t, w)
    \/ Reresolve
    \/ CallEncode
    \/ CallDecode

CodecSpec == Init /\ [][NextCodec]_vars

(***************************************************************************)
(* The claims.                                                             *)
(***************************************************************************)
Ready(h) == j[h].pc = "ready"

\* a handle that Create returned and whose Writes all succeeded so far
FromCreate(h) == Ready(h) /\ j[h].origin = "Create" /\ ~j[h].failed

Size == Len(file.bytes)

\* C1: dense layout.  On a handle from Create whose Writes all succeeded,
\* the size of the file is HeaderSize + points * width.
C1_DenseLayout ==
    FromCreate(Caller) =>
        Size = HeaderSize + j[Caller].points * j[Caller].header.Width

\* C2: underflow write is rejected.  A Write on a journal with a non-zero
\* epoch whose aligned timestamp lies before the epoch returns an error and
\* changes neither the file nor the epoch and point count of the handle.
C2_UnderflowRejected ==
    [][\A timestamp \in Timestamps, values \in Values :
          (/\ Ready(Caller)
           /\ j[Caller].header.Epoch # 0
           /\ adjust(timestamp, j[Caller].header.Interval) < j[Caller].header.Epoch
           /\ Write(Caller, timestamp, values))
          => (/\ last'.err # ""
              /\ file' = file
              /\ j'[Caller].header = j[Caller].header
              /\ j'[Caller].points = j[Caller].points)]_vars

\* the bytes of slot k of the file, none when the file ends before the slot
Slot(bytes, width, k) ==
    IF HeaderSize + (k + 1) * width <= Len(bytes)
    THEN Slice(bytes, HeaderSize + k * width, HeaderSize + (k + 1) * width)
    ELSE <<>>

\* C3: gap filling.  A journal from Create holds the samples of one Write,
\* at slots 0 .. points-1 from the epoch.  A second Write whose aligned
\* timestamp lies beyond the slot after the last one, and which carries at
\* least one sample, leaves the null
\* sentinel in every slot between the two, and Read of such a slot decodes
\* to the null sample.
C3_GapFilling ==
    [][\A timestamp \in Timestamps, values \in Values :
          LET ts == j[Caller]
              first == ts.points
              k == GoDiv(adjust(timestamp, ts.header.Interval) - ts.header.Epoch,
                         ts.header.Interval)
          IN  (/\ FromCreate(Caller)
               /\ ncalls = 1
               /\ nwrites = 1
               /\ k > first
               /\ Len(values) >= 1
               /\ Write(Caller, timestamp, values)
               /\ last'.err = "")
              => \A gap \in first..(k - 1) :
                    /\ Slot(file'.bytes, ts.header.Width, gap) = ts.factory.null
                    /\ ReadCall(j'[Caller], file'.bytes,
                                ts.header.Epoch + gap * ts.header.Interval, 1)
                         = [values |-> <<MinInt64>>, err |-> ""]]_vars

\* C4: read-after-write.  After a successful Write of n >= 1 samples at a
\* timestamp, Read of n samples at that timestamp returns them without an
\* error, on the same handle and on the handle that Close and Open give.
C4_ReadAfterWrite ==
    [][\A timestamp \in Timestamps, values \in Values :
          (/\ Ready(Caller)
           /\ Len(values) >= 1
           /\ Write(Caller, timestamp, values)
           /\ last'.err = "")
          => LET same == ReadCall(j'[Caller], file'.bytes, timestamp, Len(values))
                 reopened == OpenCall(file'.bytes, FALSE)
                 again == ReadCall(reopened.ts, file'.bytes, timestamp, Len(values))
             IN  /\ same = [values |-> values, err |-> ""]
                 /\ reopened.err = ""
                 /\ again = [values |-> values, err |-> ""]]_vars

\* C5: reopen agrees with the closed session.  When a handle from Create
\* whose Writes all succeeded is closed, Open of the file gives a handle with
\* the point count and the epoch the closed handle had.
C5_ReopenAgrees ==
    [][(FromCreate(Caller) /\ Close(Caller))
          => LET reopened == OpenCall(file'.bytes, ~file'.writable)
             IN  /\ reopened.err = ""
                 /\ reopened.ts.points = j[Caller].points
                 /\ reopened.ts.header.Epoch = j[Caller].header.Epoch]_vars

\* C6: zero-epoch semantics.  On every open handle the epoch is 0 exactly
\* when the point count is 0.
C6_ZeroEpoch ==
    Ready(Caller) => (j[Caller].header.Epoch = 0 <=> j[Caller].points = 0)

\* C7: epoch alignment.  The first successful Write on an empty journal sets
\* the epoch to its timestamp adjusted down to the grid: a multiple of the
\* interval with epoch <= timestamp < epoch + interval.
C7_EpochAlignment ==
    [][\A timestamp \in Timestamps, values \in Values :
          (/\ Ready(Caller)
           /\ j[Caller].header.Epoch = 0
           /\ j[Caller].points = 0
           /\ Write(Caller, timestamp, values)
           /\ last'.err = "")
          => LET epoch == j'[Caller].header.Epoch
                 interval == j[Caller].header.Interval
             IN  /\ epoch % interval = 0
                 /\ epoch <= timestamp
                 /\ timestamp < epoch + interval]_vars

\* a step of Create, Open or Write made by a caller other than g
StepOfOther(g) ==
    \E h \in Handles \ {g} :
       \/ OpenFile(h) \/ OpenLock(h) \/ OpenHeader(h) \/ OpenStat(h)
       \/ \E interval \in Intervals, factory \in Factories, meta \in ConcMetas :
             CreateFile(h, interval, factory, meta)
       \/ CreateLock(h) \/ CreateHeader(h)
       \/ \E timestamp \in ConcTimestamps, values \in ConcValues :
             Write(h, timestamp, values)

\* C8: the lock protects the file.  While a handle from Create or from a
\* read/write Open is open, no step of another caller's Create, Open or Write
\* changes the bytes of the file.
C8_LockProtectsFile ==
    [][\A g \in Handles :
          (Ready(g) /\ ~j[g].readonly /\ StepOfOther(g))
          => file'.bytes = file.bytes]_vars

\* the lock the open mode of a returned handle asks for
ModeOf(h) == IF j[h].readonly THEN "sh" ELSE "ex"

\* C9: lock mode matches open mode.  Every handle that Create or Open
\* returned and that is not closed holds the exclusive lock when it is
\* read/write and a shared lock when it is read-only, and two such handles
\* are open together only when both are read-only.
C9_LockModeMatchesOpenMode ==
    /\ \A h \in Handles : Ready(h) => lock[h] = ModeOf(h)
    /\ \A g \in Handles, h \in Handles :
          (g # h /\ Ready(g) /\ Ready(h)) => (j[g].readonly /\ j[h].readonly)

\* a read/write handle is open while another caller, its file opened, waits
\* for the lock
C9_Witness ==
    \E g \in Handles, h \in Handles :
       /\ g # h
       /\ Ready(g) /\ ~j[g].readonly /\ lock[g] = "ex"
       /\ j[h].pc \in {"open_lock", "create_lock"}

\* another descriptor than h holds the exclusive lock
HeldElsewhere(h) == \E g \in Fds \ {h} : lock[g] = "ex"

\* no other descriptor than h holds a lock
FreeElsewhere(h) == \A g \in Fds \ {h} : lock[g] = "none"

\* C10: try-lock fails instead of blocking.  TryExclusive and TryShare on a
\* descriptor return without waiting.  While another descriptor holds the
\* exclusive lock they return an error and leave the locks of the other
\* descriptors as they were; when every other descriptor is closed or has
\* released its lock they return no error and the descriptor holds the lock
\* it asked for.
C10_TryLockFailsWithoutBlocking ==
    [][\A h \in Fds :
          (CallTryExclusive(h) \/ CallTryShare(h))
          => /\ j'[h].pc = "fd"
             /\ last'.h = h
             /\ last'.op \in {"TryExclusive", "TryShare"}
             /\ HeldElsewhere(h)
                  => /\ last'.err # ""
                     /\ \A g \in Fds \ {h} : lock'[g] = lock[g]
             /\ FreeElsewhere(h)
                  => /\ last'.err = ""
                     /\ lock'[h] = IF last'.op = "TryExclusive" THEN "ex" ELSE "sh"]_vars

\* TryExclusive has just failed on one descriptor while another holds the
\* exclusive lock
C10_Witness ==
    /\ last.op = "TryExclusive"
    /\ last.err = "EWOULDBLOCK"
    /\ j[last.h].pc = "fd"
    /\ HeldElsewhere(last.h)

C12_MetadataCapacity ==
    [][\A interval \in CreateIntervals, factory \in CreateFactories,
          meta \in CreateMetas :
          (Len(meta) > 4 /\ CreateFile(Caller, interval, factory, meta))
          => /\ last'.op = "Create"
             /\ last'.err # ""
             /\ j'[Caller].pc = "idle"
             /\ file' = file
             /\ lock' = lock]_vars

\* Create has just refused five metadata values while a journal exists at
\* the path
C12_Witness ==
    /\ last.op = "Create"
    /\ last.err = "Length of metadata slice too long"
    /\ file.exists
    /\ Len(file.bytes) >= HeaderSize

\* C13: read-only write rejection.  On a handle that Open returned through
\* the read-only fallback every Write returns an error and leaves the file
\* and the handle's epoch and point count as they were.
C13_ReadOnlyWriteRejected ==
    [][\A timestamp \in Timestamps, values \in Values :
          (/\ Ready(Caller)
           /\ j[Caller].readonly
           /\ Write(Caller, timestamp, values))
          => /\ last'.err # ""
             /\ file' = file
             /\ j'[Caller].header.Epoch = j[Caller].header.Epoch
             /\ j'[Caller].points = j[Caller].points]_vars

\* C14: Open validation.  When Open returns a handle, the file begins with
\* the magic, its type tag is one GetValueType knows, and its size less the
\* header is a non-negative multiple of the header's width.
C14_OpenValidation ==
    [][\A h \in Handles :
          (OpenStat(h) /\ j'[h].pc = "ready")
          => /\ Len(file'.bytes) >= HeaderSize
             /\ Slice(file'.bytes, 0, 4) = Magic
             /\ ~Panics(j'[h].header.Type)
             /\ GoRem(Len(file'.bytes) - HeaderSize, j'[h].header.Width) = 0
             /\ j'[h].points >= 0]_vars

\* C15: slot idempotence.  In any state of an open handle, Write(t, V)
\* followed by Write(t, V') with Len(V') >= Len(V) leaves the bytes of the
\* file as Write(t, V') alone leaves them from the same state.
C15_SlotIdempotence ==
    [][\A timestamp \in SampleTimestamps, values \in Values :
          (Ready(Caller) /\ Write(Caller, timestamp, values))
          => \A longer \in Values :
                Len(longer) >= Len(values)
                => WriteCall(j'[Caller], file'.bytes, timestamp, longer).bytes
                     = WriteCall(j[Caller], file.bytes, timestamp, longer).bytes]_vars

\* the second of two Writes has just succeeded and the journal holds two
\* samples or more
C15_Witness ==
    /\ last.op = "Write"
    /\ last.err = ""
    /\ nwrites = 2
    /\ Ready(Caller)
    /\ j[Caller].points >= 2

\* C16: an empty write is a no-op.  In every state of an open handle a Write
\* of no samples changes neither the file nor the handle's epoch and point
\* count.
C16_EmptyWriteNoOp ==
    [][\A timestamp \in Timestamps :
          (Ready(Caller) /\ Write(Caller, timestamp, <<>>))
          => /\ file' = file
             /\ j'[Caller].header.Epoch = j[Caller].header.Epoch
             /\ j'[Caller].points = j[Caller].points]_vars

\* C17: underflow read is rejected.  On a journal whose epoch is not 0, a
\* Read of at least one sample whose aligned timestamp is before the epoch
\* returns an error and no samples.
C17_UnderflowReadRejected ==
    [][\A timestamp \in Timestamps, n \in 1..MaxReads :
          (/\ Ready(Caller)
           /\ j[Caller].header.Epoch # 0
           /\ adjust(timestamp, j[Caller].header.Interval) < j[Caller].header.Epoch
           /\ Read(Caller, timestamp, n))
          => /\ last'.err # ""
             /\ last'.values = <<>>]_vars

\* C18: short read at the end of the file.  With N samples in the file, a
\* Read of n samples at slot k >= 0 returns Max(0, Min(n, N - k)) samples,
\* which are the slots k onward of the file, and returns an error exactly
\* when it returns fewer than n samples.
C18_ShortRead ==
    [][\A timestamp \in SampleTimestamps, n \in 0..MaxReads :
          LET ts == j[Caller]
              width == ts.header.Width
              k == GoDiv(adjust(timestamp, ts.header.Interval) - ts.header.Epoch,
                         ts.header.Interval)
              N == GoDiv(Size - HeaderSize, width)
              count == Max(0, Min(n, N - k))
              stored == IF count = 0 THEN <<>>
                        ELSE Slice(file.bytes, HeaderSize + k * width,
                                   HeaderSize + (k + count) * width)
          IN  (/\ Ready(Caller)
               /\ k >= 0
               /\ last'.op = "Read"
               /\ Read(Caller, timestamp, n))
              => /\ Len(last'.values) = count
                 /\ Int64Encode(last'.values) = stored
                 /\ (last'.err # "") <=> (count < n)]_vars

\* a Read of two samples at the last slot of the file has returned one
\* sample and io.EOF
C18_Witness ==
    /\ last.op = "Read"
    /\ last.err = "EOF"
    /\ Len(last.values) = 1
    /\ Ready(Caller)
    /\ Size > HeaderSize

\* C19: last timestamp.  On a handle from Create whose Writes all succeeded
\* and which holds at least one sample, Last() is epoch + interval *
\* (points - 1) and is the timestamp of the final slot of the file: Read of
\* one sample there returns one sample, and Read at the next timestamp
\* returns none.
C19_LastTimestamp ==
    (FromCreate(Caller) /\ j[Caller].points >= 1)
    => LET ts == j[Caller]
           final == ReadCall(ts, file.bytes, Last(ts), 1)
           beyond == ReadCall(ts, file.bytes, Last(ts) + ts.header.Interval, 1)
       IN  /\ Last(ts) = ts.header.Epoch + ts.header.Interval * (ts.points - 1)
           /\ final.err = ""
           /\ Len(final.values) = 1
           /\ beyond.values = <<>>

\* C20: use after Close fails.  On a handle that was closed every Read and
\* every Write returns an error, and the file and the handle's epoch and
\* point count stay as they were.
C20_UseAfterClose ==
    [][(/\ j[Caller].pc = "closed"
        /\ \/ \E timestamp \in Timestamps, values \in Values :
                 Write(Caller, timestamp, values)
           \/ \E timestamp \in Timestamps, n \in 0..MaxReads :
                 Read(Caller, timestamp, n))
          => /\ last'.err # ""
             /\ file' = file
             /\ j'[Caller].header.Epoch = j[Caller].header.Epoch
             /\ j'[Caller].points = j[Caller].points]_vars

\* C21: header is mutated once only.  Over the Writes on a handle from
\* Create, header bytes 0..55 (magic, version, type tag, width, interval,
\* metadata) never change, on disk or in memory; the epoch changes only on
\* the first write to the journal, from 0 to the aligned timestamp of that
\* write; and after a successful Write the epoch field on disk equals the
\* epoch in memory.
C21_HeaderMutatedOnce ==
    [][\A timestamp \in SampleTimestamps, values \in Values :
          (/\ Ready(Caller)
           /\ j[Caller].origin = "Create"
           /\ Write(Caller, timestamp, values))
          => LET old == j[Caller].header
                 new == j'[Caller].header
             IN  /\ Slice(file'.bytes, 0, HeaderSize - 8)
                      = Slice(file.bytes, 0, HeaderSize - 8)
                 /\ [new EXCEPT !.Epoch = 0] = [old EXCEPT !.Epoch = 0]
                 /\ new.Epoch # old.Epoch
                      => /\ old.Epoch = 0
                         /\ Size = HeaderSize
                         /\ new.Epoch = adjust(timestamp, old.Interval)
                 /\ last'.err = ""
                      => DecodeHeader(file'.bytes).Epoch = new.Epoch]_vars

\* C22: codec round trip.  For every codec (byte records of any width,
\* int64, float64) and every Values V of that codec, Decode of V's Encode
\* has the length of V and equals V element for element.
C22_CodecRoundTrip ==
    last.op = "Decode"
    => /\ Len(last.decoded) = Len(last.values)
       /\ \A i \in 1..Len(last.values) : last.decoded[i] = last.values[i]

\* a float64 journal codec has decoded two values, a NaN among them
C22_Witness ==
    /\ last.op = "Decode"
    /\ last.factory.kind = "float64"
    /\ Len(last.values) = 2
    /\ last.values[2] = F64(<<127, 248, 0, 0, 0, 0, 0, 1>>)
    /\ last.bytes[9] = 1

\* C23: byte-blob codec construction.  NewByteValueType(w, null) reports
\* width w and a null of exactly w bytes: the given buffer, right-padded
\* with 0x00 when it is shorter than w and truncated to w when it is longer.
\* Its Type() is 0x01 when that null is all zero, 0x00 when it begins with
\* "NULL", and 0x0F otherwise.
C23_ByteCodecConstruction ==
    last.op = "NewByteValueType"
    => LET w == last.width
           given == last.null
           null == last.factory.null
           allZero == \A i \in 1..w : null[i] = 0
           beginsNull == w >= 4 /\ \A i \in 1..4 : null[i] = NullText[i]
       IN  /\ last.factory.width = w
           /\ Len(null) = w
           /\ \A i \in 1..w : null[i] = IF i <= Len(given) THEN given[i] ELSE 0
           /\ last.factory.type
                = IF allZero THEN 1 ELSE IF beginsNull THEN 0 ELSE 15

\* a null buffer shorter than the width was padded, and a longer one that
\* begins with "NULL" was truncated
C23_Witness ==
    /\ last.op = "NewByteValueType"
    /\ \/ /\ last.null = <<45, 45>>
          /\ last.width = 4
          /\ last.factory.null = <<45, 45, 0, 0>>
          /\ last.factory.type = 15
       \/ /\ last.null = NullText \o <<Space, Space>>
          /\ last.width = 5
          /\ last.factory.null = NullText \o <<Space>>
          /\ last.factory.type = 0

\* C24: codec resolution is total.  GetValueType(tag, w) returns a codec
\* for every registered tag (0x00, 0x01, 0x0F, 0x10, 0x11) and every width
\* w >= 1; the codec's Width() is w for the byte-record tags and 8 for the
\* numeric tags; for every other tag the call panics and returns no codec.
C24_ResolutionTotal ==
    (last.op = "GetValueType" /\ last.w >= 1)
    => IF last.t \in {0, 1, 15, 16, 17}
       THEN /\ last.err = ""
            /\ "factory" \in DOMAIN last
            /\ last.factory.width = IF last.t \in {0, 1, 15} THEN last.w ELSE 8
       ELSE /\ last.err = "panic: Unimplemented journal data type"
            /\ "factory" \notin DOMAIN last

\* the float64 tag was resolved with a width that is not 8
C24_Witness ==
    /\ last.op = "GetValueType"
    /\ last.t = 16
    /\ last.w = 3
    /\ last.factory.width = 8
    /\ last.factory.kind = "float64"

\* C25: resolved blob nulls.  For every width w >= 1 the codec resolved from
\* tag 0x01 has a null of w zero bytes, and the codecs resolved from tags
\* 0x00 and 0x0F have one and the same null: "NULL" followed by w - 4 spaces
\* when w >= 4, the w-byte prefix of "NULL" when w < 4.  So the null of a
\* codec the user constructed comes back, when the journal is reopened,
\* only if it is that standard null.
C25_ResolvedBlobNulls ==
    (last.op = "GetValueType" /\ last.t \in {0, 1, 15} /\ last.w >= 1)
    => LET w == last.w
           null == last.factory.null
           standard == [i \in 1..w |->
                          IF last.t = 1 THEN 0
                          ELSE IF i <= 4 THEN NullText[i] ELSE Space]
       IN  /\ Len(null) = w
           /\ \A i \in 1..w : null[i] = standard[i]
           /\ "made" \in DOMAIN last
                => (last.made.null = null) = (last.made.null = standard)

\* the codec of width 2 and null "--" is resolved again with the null "NU"
C25_Witness ==
    /\ last.op = "GetValueType"
    /\ "made" \in DOMAIN last
    /\ last.made.null = <<45, 45>>
    /\ last.t = 15
    /\ last.w = 2
    /\ last.factory.null = <<78, 85>>

\* C26: null width.  Every codec, constructed by the caller or resolved by
\* GetValueType from a registered tag and a width w >= 1, has a Null() of
\* exactly Width() bytes, so the nulls that fill a gap of g slots are
\* g * Width() bytes.
C26_NullWidth ==
    (last.op \in {"NewByteValueType", "New", "GetValueType"} /\ last.err = "")
    => LET factory == last.factory
       IN  /\ Len(factory.null) = factory.width
           /\ \A g \in 0..MaxLen :
                 Len(Repeat(factory.null, g)) = g * factory.width

\* the int64 codec was constructed, and a codec of width 3 was resolved
\* from the tag 0x00
C26_Witness ==
    /\ last.op \in {"New", "GetValueType"}
    /\ last.err = ""
    /\ \/ last.op = "New" /\ last.factory.kind = "int64"
       \/ last.op = "GetValueType" /\ last.t = 0 /\ last.w = 3
    /\ Len(last.factory.null) \in {3, 8}

\* C27: point-count bookkeeping.  On a journal with a non-zero epoch and N
\* points, a successful Write of n samples at slot index k >= 0 leaves
\* max(N, k + n) points, when k <= N as when k > N; on an empty journal a
\* successful first Write of n samples leaves n points.
C27_PointCount ==
    [][\A timestamp \in SampleTimestamps, values \in Values :
          LET ts == j[Caller]
              N == ts.points
              n == Len(values)
              k == GoDiv(adjust(timestamp, ts.header.Interval) - ts.header.Epoch,
                         ts.header.Interval)
          IN  (/\ last'.op = "Write"
               /\ last'.err = ""
               /\ Write(Caller, timestamp, values))
              => /\ (ts.header.Epoch # 0 /\ k >= 0)
                      => j'[Caller].points = Max(N, k + n)
                 /\ (ts.header.Epoch = 0 /\ N = 0 /\ Size = HeaderSize)
                      => j'[Caller].points = n]_vars

\* a second write, of samples beyond the end of a journal of epoch -2, has
\* left five points in memory and on disk, the gap filled
C27_Witness ==
    /\ Ready(Caller)
    /\ last.op = "Write"
    /\ last.err = ""
    /\ nwrites = 2
    /\ j[Caller].header.Epoch = 0 - 2
    /\ j[Caller].points = 5
    /\ Size = HeaderSize + 5 * Int64Width

\* C28: Write touches only its own slots.  On a journal with a non-zero
\* epoch and N points, a successful Write of n samples at slot index k >= 0
\* leaves every slot stored before, of index below N and outside
\* k .. k + n - 1, byte for byte as it was, and leaves the 64 bytes of the
\* header as they were.
C28_WriteTouchesOwnSlots ==
    [][\A timestamp \in SampleTimestamps, values \in Values :
          LET ts == j[Caller]
              N == ts.points
              n == Len(values)
              width == ts.header.Width
              k == GoDiv(adjust(timestamp, ts.header.Interval) - ts.header.Epoch,
                         ts.header.Interval)
          IN  (/\ last'.op = "Write"
               /\ last'.err = ""
               /\ ts.header.Epoch # 0
               /\ k >= 0
               /\ Write(Caller, timestamp, values))
              => /\ Slice(file'.bytes, 0, HeaderSize) = Slice(file.bytes, 0, HeaderSize)
                 /\ \A slot \in 0..(N - 1) :
                       (/\ slot < k \/ slot >= k + n
                        /\ HeaderSize + (slot + 1) * width <= Size)
                       => Slot(file'.bytes, width, slot)
                            = Slot(file.bytes, width, slot)]_vars

\* a write of the sample 5 at the epoch of a journal that held 1, 2 has
\* left 5, 2
C28_Witness ==
    /\ Ready(Caller)
    /\ last.op = "Write"
    /\ last.err = ""
    /\ nwrites = 2
    /\ j[Caller].header.Epoch = 2
    /\ j[Caller].points = 2
    /\ Size = HeaderSize + 2 * Int64Width
    /\ Int64Decode(Slice(file.bytes, HeaderSize, Size)) = <<I64(5), I64(2)>>

\* C29: a failed Open or Create leaves no lock behind.  Whenever Open or
\* Create returns an error after it has taken the lock, its descriptor is
\* closed and its lock released when it returns, so that the lock is free
\* for the next Open or Create of the path.
C29_FailedOpenReleasesLock ==
    [][\A h \in Handles :
          (/\ lock[h] # "none"
           /\ OpenHeader(h) \/ OpenStat(h) \/ CreateHeader(h)
           /\ last'.op \in {"Open", "Create"}
           /\ last'.h = h
           /\ last'.err \notin {"", "panic: Unimplemented journal data type",
                                "panic: integer divide by zero"})
          => /\ lock'[h] = "none"
             /\ ~HasFd(h)']_vars

\* C30: a failed Write leaves the handle unchanged.  Whenever Write returns
\* an error (the positional write failed: the handle is read-only or
\* closed), the epoch and the point count the handle holds in memory are
\* what they were before the call.
C30_FailedWriteKeepsHandle ==
    [][\A h \in Handles :
          (/\ nwrites' = nwrites + 1
           /\ last'.op = "Write"
           /\ last'.h = h
           /\ last'.err # "")
          => /\ j'[h].header = j[h].header
             /\ j'[h].points = j[h].points]_vars

\* Write on a read-only handle of an empty journal has returned the error
\* of the descriptor
C30_Witness ==
    /\ last.op = "Write"
    /\ last.err = "bad file descriptor"
    /\ Ready(last.h)
    /\ j[last.h].readonly
    /\ j[last.h].failed
    /\ j[last.h].header.Epoch = 0
    /\ j[last.h].points = 0

\* C31: structural validity is preserved.  After any Writes to a journal
\* from Create, accepted or rejected, at any timestamps and of any number
\* of samples, the size of the file less the 64 bytes of the header is a
\* non-negative multiple of the width and the magic is intact; so an Open
\* that follows never fails with the not-a-journal or the
\* corrupt-or-partial error.
C31_StructuralValidity ==
    LET width == file.made[1].factory.width
    IN  /\ Size >= HeaderSize
        /\ GoRem(Size - HeaderSize, width) = 0
        /\ Slice(file.bytes, 0, 4) = Magic
        /\ last.op = "Open"
             => last.err \notin {"Not a journal timeseries",
                                 "Corrupt or partial data!"}

====
